---- MODULE Spec2Model ----
(***************************************************************************)
(* A model of website/addons/osfstorage/utils.py: the helpers the          *)
(* osfstorage addon uses to serialize file metadata, to build URLs for     *)
(* the external storage service (waterbutler), to mint a signed session    *)
(* cookie for a user, and to fetch and cache a rendered file.              *)
(*                                                                         *)
(* Text is modelled as a sequence of symbols.  Each delimiter character    *)
(* (":", "/", "?", "&", "=", ".", "-") is a symbol of its own and a run    *)
(* of other characters is one symbol, so "report.docx" is                  *)
(* <<"report", ".", "docx">>.  Splitting, parsing and re-serializing text  *)
(* work on the delimiters exactly as the code's library calls do.          *)
(***************************************************************************)
EXTENDS Integers, Sequences, FiniteSets, TLC

VARIABLES
    last,            \* the helper call made last: its name, arguments, result
    sessions,        \* the Session collection: _id -> stored record
    now,             \* the clock Session.save() stamps date_modified with
    procs,           \* concurrent requests running get_cookie_for_user
    render,          \* the request running render_file: position and events
    cache            \* the rendered-file cache: file name -> content

vars == <<last, sessions, now, procs, render, cache>>

----------------------------------------------------------------------------
(* Bounds of the model.                                                    *)

MaxVersions == 3
MaxSessions == 2
MaxTime == 2

----------------------------------------------------------------------------
(* Values shared by every helper.                                          *)

\* Python's None where a text value is expected.
NoneStr == <<"<None>">>

Return(v) == [kind |-> "return", value |-> v]
Raise(e) == [kind |-> "raise", value |-> e]

Max(S) == CHOOSE x \in S : \A y \in S : y <= x

\* str.rfind on symbols, one-based: 0 when the symbol does not occur.
RFind(p, c) ==
    IF \E i \in 1..Len(p) : p[i] = c
    THEN Max({i \in 1..Len(p) : p[i] = c})
    ELSE 0

\* str.find on symbols, one-based: 0 when the symbol does not occur.
Find(p, c) ==
    IF \E i \in 1..Len(p) : p[i] = c
    THEN CHOOSE i \in 1..Len(p) : p[i] = c /\ \A j \in 1..(i - 1) : p[j] # c
    ELSE 0

\* str.split(c): the pieces between the occurrences of c.
RECURSIVE Split(_, _)
Split(p, c) ==
    LET i == Find(p, c)
    IN  IF i = 0 THEN <<p>>
        ELSE <<SubSeq(p, 1, i - 1)>> \o Split(SubSeq(p, i + 1, Len(p)), c)

\* c.join(pieces)
RECURSIVE Join(_, _)
Join(pieces, c) ==
    IF Len(pieces) = 0 THEN <<>>
    ELSE IF Len(pieces) = 1 THEN pieces[1]
    ELSE pieces[1] \o <<c>> \o Join(Tail(pieces), c)

\* '%0<w>d' % n
RECURSIVE ZeroPad(_, _)
ZeroPad(s, w) == IF Len(s) >= w THEN s ELSE ZeroPad("0" \o s, w)

Pad(n, w) == ZeroPad(ToString(n), w)

\* os.path.splitext (posix): the extension starts at the last dot of the
\* last path component, unless only dots precede it in that component.
splitext(p) ==
    LET sepIndex == RFind(p, "/")
        dotIndex == RFind(p, ".")
    IN  IF /\ dotIndex > sepIndex
           /\ \E i \in (sepIndex + 1)..(dotIndex - 1) : p[i] # "."
        THEN <<SubSeq(p, 1, dotIndex - 1), SubSeq(p, dotIndex, Len(p))>>
        ELSE <<p, <<>>>>

\* os.path.split(p)[1]: the last path component.
basename(p) == SubSeq(p, RFind(p, "/") + 1, Len(p))

----------------------------------------------------------------------------
(* get_permissions                                                         *)

Auths == {"anonymous", "alice"}

\* A node as the permission check sees it: what can_edit(auth) and
\* can_view(auth) answer, and whether it is a registration.
PermNodes ==
    [is_registration : BOOLEAN,
     can_edit : [Auths -> BOOLEAN],
     can_view : [Auths -> BOOLEAN]]

\* A variant that forgets the registration check.
get_permissions_any_node(auth, node) ==
    [edit |-> node.can_edit[auth],
     view |-> node.can_view[auth]]

get_permissions(auth, node) ==
    [edit |-> node.can_edit[auth] /\ ~node.is_registration,
     view |-> node.can_view[auth]]

----------------------------------------------------------------------------
(* get_item_kind, serialize_metadata_hgrid                                 *)

rubeus_FOLDER == "folder"
rubeus_FILE == "file"

ItemPaths ==
    {<<"/", "docs">>,
     <<"/", "docs", "/", "report", ".", "docx">>,
     <<"/", ".", "hidden">>}

FileAttrs == {"path", "name", "extension", "get_download_count"}

\* An object handed to the serializer: its class, the attributes it has,
\* and their values.  name and extension are the properties of
\* BaseFileObject, derived from the path.
Item(cls, has, path, downloads) ==
    [cls |-> cls, has |-> has, path |-> path, name |-> basename(path),
     extension |-> splitext(path)[2], downloads |-> downloads]

Items ==
    {Item(cls, FileAttrs, p, d) :
        cls \in {"OsfStorageFileTree", "OsfStorageFileRecord"},
        p \in ItemPaths, d \in 0..1}
    \cup {Item("str", {}, p, 0) : p \in ItemPaths}
    \cup {Item("OsfStorageGuidFile", {"path"}, p, 0) : p \in ItemPaths}
    \cup {Item("Mock", FileAttrs, p, d) : p \in ItemPaths, d \in 0..1}

HgridNodes ==
    {[_id |-> "abc12", url |-> <<"/", "abc12", "/">>,
      api_url |-> <<"/", "api", "/", "v1", "/", "project", "/", "abc12", "/">>],
     [_id |-> "xyz89", url |-> <<"/", "xyz89", "/">>,
      api_url |-> <<"/", "api", "/", "v1", "/", "project", "/", "xyz89", "/">>]}

get_item_kind(item) ==
    IF item.cls = "OsfStorageFileTree" THEN Return(rubeus_FOLDER)
    ELSE IF item.cls = "OsfStorageFileRecord" THEN Return(rubeus_FILE)
    ELSE Raise("TypeError")

\* The dict display evaluates its values in order: item.path, item.name
\* and item.extension are read before get_item_kind(item) is called, and a
\* missing attribute raises AttributeError there.
serialize_metadata_hgrid(item, node) ==
    IF "path" \notin item.has THEN Raise("AttributeError")
    ELSE IF "name" \notin item.has THEN Raise("AttributeError")
    ELSE IF "extension" \notin item.has THEN Raise("AttributeError")
    ELSE LET kind == get_item_kind(item)
         IN  IF kind.kind = "raise" THEN kind
             ELSE IF "get_download_count" \notin item.has
                  THEN Raise("AttributeError")
             ELSE Return([path |-> item.path,
                          name |-> item.name,
                          ext |-> item.extension,
                          kind |-> kind.value,
                          nodeUrl |-> node.url,
                          nodeApiUrl |-> node.api_url,
                          downloads |-> item.downloads])

----------------------------------------------------------------------------
(* get_filename                                                            *)

\* datetime.isoformat(): YYYY-MM-DDTHH:MM:SS, then .ffffff when the
\* microsecond is not 0.
isoformat(d) ==
    <<Pad(d.year, 4), "-", Pad(d.month, 2), "-", Pad(d.day, 2), "T",
      Pad(d.hour, 2), ":", Pad(d.minute, 2), ":", Pad(d.second, 2)>>
    \o (IF d.microsecond = 0 THEN <<>> ELSE <<".", Pad(d.microsecond, 6)>>)

\* The i-th stored version of a file.
Version(i) ==
    [location_hash |-> "hash" \o ToString(i),
     date_created |->
        IF i = 2
        THEN [year |-> 2021, month |-> 1, day |-> 5,
              hour |-> 0, minute |-> 0, second |-> 0, microsecond |-> 0]
        ELSE [year |-> 2014 + i, month |-> 12, day |-> 30 + (i % 2),
              hour |-> 23, minute |-> 59, second |-> 5,
              microsecond |-> IF i % 2 = 1 THEN 123 ELSE 0]]

FileNames ==
    {<<"report", ".", "docx">>,
     <<"archive", ".", "tar", ".", "gz">>,
     <<".", "bashrc">>,
     <<"README">>,
     <<"notes", ".">>,
     <<".", "hidden", ".", "txt">>}

\* A file record with n versions.
FileRecord(name, n) ==
    [name |-> name, path |-> <<"/">> \o name, node |-> "abc12",
     versions |-> [i \in 1..n |-> Version(i)]]

FileRecords == {FileRecord(name, n) : name \in FileNames, n \in 1..MaxVersions}

\* A variant that takes the version index as zero-based.
get_filename_zero_based(version_idx, file_version, file_record) ==
    IF version_idx = Len(file_record.versions) - 1
    THEN file_record.name
    ELSE LET name == splitext(file_record.name)[1]
             ext == splitext(file_record.name)[2]
         IN  name \o <<"-">> \o isoformat(file_version.date_created) \o ext

get_filename(version_idx, file_version, file_record) ==
    IF version_idx = Len(file_record.versions)
    THEN file_record.name
    ELSE LET name == splitext(file_record.name)[1]
             ext == splitext(file_record.name)[2]
         IN  name \o <<"-">> \o isoformat(file_version.date_created) \o ext

----------------------------------------------------------------------------
(* patch_url, ensure_domain, build_callback_urls                           *)

settings_DOMAIN == <<"osf", ".", "io">>

\* The port furl leaves out of a URL: the default port of its scheme.
DefaultPort(scheme) ==
    IF scheme = <<"http">> THEN <<"80">>
    ELSE IF scheme = <<"https">> THEN <<"443">>
    ELSE <<>>

\* One 'key=value' item of a query string; without '=' the value is None.
QueryItem(item) ==
    LET i == Find(item, "=")
    IN  IF i = 0 THEN <<item, NoneStr>>
        ELSE <<SubSeq(item, 1, i - 1), SubSeq(item, i + 1, Len(item))>>

\* The query string as furl's ordered list of (key, value) pairs.
QueryArgs(query) ==
    IF query = <<>> THEN <<>>
    ELSE LET items == Split(query, "&")
         IN  [i \in 1..Len(items) |-> QueryItem(items[i])]

QueryStr(args) ==
    Join([i \in 1..Len(args) |->
              IF args[i][2] = NoneStr THEN args[i][1]
              ELSE args[i][1] \o <<"=">> \o args[i][2]], "&")

\* furl.furl(url): the URL split into scheme, host, port, path and query
\* arguments.  A scheme is a leading symbol followed by ':'; a network
\* location follows '//' and ends at the next '/' or '?'.
furl(url) ==
    LET hasScheme == Len(url) >= 2 /\ url[2] = ":" /\ url[1] \notin {"/", "?", ":"}
        scheme == IF hasScheme THEN <<url[1]>> ELSE <<>>
        rest == IF hasScheme THEN SubSeq(url, 3, Len(url)) ELSE url
        hasNetloc == Len(rest) >= 2 /\ rest[1] = "/" /\ rest[2] = "/"
        afterSlashes == IF hasNetloc THEN SubSeq(rest, 3, Len(rest)) ELSE rest
        ends == {i \in 1..Len(afterSlashes) : afterSlashes[i] \in {"/", "?"}}
        netlocLen == IF ~hasNetloc THEN 0
                     ELSE IF ends = {} THEN Len(afterSlashes)
                     ELSE (CHOOSE i \in ends : \A j \in ends : i <= j) - 1
        netloc == SubSeq(afterSlashes, 1, netlocLen)
        colon == Find(netloc, ":")
        tail == SubSeq(afterSlashes, netlocLen + 1, Len(afterSlashes))
        mark == Find(tail, "?")
    IN  [scheme |-> scheme,
         host |-> IF colon = 0 THEN netloc ELSE SubSeq(netloc, 1, colon - 1),
         port |-> IF colon = 0 THEN <<>>
                  ELSE SubSeq(netloc, colon + 1, Len(netloc)),
         path |-> IF mark = 0 THEN tail ELSE SubSeq(tail, 1, mark - 1),
         args |-> IF mark = 0 THEN <<>>
                  ELSE QueryArgs(SubSeq(tail, mark + 1, Len(tail)))]

\* furl.url: the parts put together again.
furl_url(f) ==
    (IF f.scheme = <<>> THEN <<>> ELSE f.scheme \o <<":">>)
    \o (IF f.host = <<>> THEN <<>>
        ELSE <<"/", "/">> \o f.host
             \o (IF f.port = <<>> \/ f.port = DefaultPort(f.scheme)
                 THEN <<>> ELSE <<":">> \o f.port))
    \o f.path
    \o (IF f.args = <<>> THEN <<>> ELSE <<"?">> \o QueryStr(f.args))

UrlFields == {"scheme", "host", "port", "path", "args"}

\* A variant that parses and re-serializes without setting anything.
patch_url_unpatched(url, kwargs) == furl_url(furl(url))

\* kwargs: the attributes to set on the parsed URL, name -> value.
patch_url(url, kwargs) ==
    LET parsed == furl(url)
    IN  furl_url([key \in UrlFields |->
                     IF key \in DOMAIN kwargs THEN kwargs[key] ELSE parsed[key]])

ensure_domain(url) == patch_url(url, [host |-> settings_DOMAIN])

\* node.api_url_for(view_name, path=path): the node's API URL for a named
\* route, the path as a query argument.
ApiUrlFor(node, view_name, path) ==
    node.api_url \o <<"osfstorage", "/", "hooks", "/", view_name, "/">>
    \o <<"?", "path", "=">> \o path

\* A variant whose cached hook was copied from the finish hook.
build_callback_urls_copied(node, path) ==
    LET start_url == ApiUrlFor(node, "osf_storage_upload_start_hook", path)
        finish_url == ApiUrlFor(node, "osf_storage_upload_finish_hook", path)
        cached_url == ApiUrlFor(node, "osf_storage_upload_finish_hook", path)
        ping_url == ApiUrlFor(node, "osf_storage_upload_ping_hook", path)
        archive_url == ApiUrlFor(node, "osf_storage_upload_archived_hook", path)
    IN  [startUrl |-> ensure_domain(start_url),
         finishUrl |-> ensure_domain(finish_url),
         cachedUrl |-> ensure_domain(cached_url),
         pingUrl |-> ensure_domain(ping_url),
         archiveUrl |-> ensure_domain(archive_url)]

build_callback_urls(node, path) ==
    LET start_url == ApiUrlFor(node, "osf_storage_upload_start_hook", path)
        finish_url == ApiUrlFor(node, "osf_storage_upload_finish_hook", path)
        cached_url == ApiUrlFor(node, "osf_storage_upload_cached_hook", path)
        ping_url == ApiUrlFor(node, "osf_storage_upload_ping_hook", path)
        archive_url == ApiUrlFor(node, "osf_storage_upload_archived_hook", path)
    IN  [startUrl |-> ensure_domain(start_url),
         finishUrl |-> ensure_domain(finish_url),
         cachedUrl |-> ensure_domain(cached_url),
         pingUrl |-> ensure_domain(ping_url),
         archiveUrl |-> ensure_domain(archive_url)]

\* URLs handed to ensure_domain: with and without scheme, host, port, query.
InputSchemes == {<<>>, <<"http", ":">>, <<"https", ":">>}
InputNetlocs ==
    {<<>>,
     <<"/", "/", "localhost">>,
     <<"/", "/", "localhost", ":", "5000">>,
     <<"/", "/", "10", ".", "0", ".", "0", ".", "7", ":", "80">>,
     <<"/", "/", "osf", ".", "io">>}
InputPaths == {<<>>, <<"/">>, <<"/", "api", "/", "v1", "/", "hook", "/">>}
InputQueries ==
    {<<>>,
     <<"?", "path", "=", "a", ".", "txt">>,
     <<"?", "path", "=", "a", "&", "flag", "&", "v", "=">>}

InputUrls ==
    {s \o n \o p \o q :
        s \in InputSchemes, n \in InputNetlocs, p \in InputPaths, q \in InputQueries}

CallbackPaths == {<<"a", ".", "txt">>, <<"docs", "/", "b">>}

----------------------------------------------------------------------------
(* The pure helpers, each applied to inputs drawn from the sets above.     *)

Call(fn, args, ret) == [fn |-> fn, args |-> args, ret |-> ret]

NoCall == Call("none", <<>>, <<>>)

Procs == {"p1", "p2"}

NoDoc == [_id |-> "", date_modified |-> 0, data |-> [status |-> <<>>]]

IdleProc == [pc |-> "idle", user |-> "", session |-> NoDoc, created |-> FALSE,
             ret |-> <<>>, solo |-> FALSE]

IdleRender == [pc |-> "idle", args |-> <<>>, events |-> <<>>,
               rendered |-> NoneStr, ret |-> <<>>]

InitIdle ==
    /\ last = NoCall
    /\ sessions = <<>>
    /\ now = 0
    /\ procs = [p \in Procs |-> IdleProc]
    /\ render = IdleRender
    /\ cache = {}

\* A pure helper touches neither the session store nor the cache.
Pure == UNCHANGED <<sessions, now, procs, render, cache>>

GetPermissions ==
    /\ Pure
    /\ \E auth \in Auths, node \in PermNodes :
        last' = Call("get_permissions", [auth |-> auth, node |-> node],
                     Return(get_permissions(auth, node)))

SerializeMetadataHgrid ==
    /\ Pure
    /\ \E item \in Items, node \in HgridNodes :
        last' = Call("serialize_metadata_hgrid", [item |-> item, node |-> node],
                     serialize_metadata_hgrid(item, node))

GetFilename ==
    /\ Pure
    /\ \E file_record \in FileRecords :
        \E version_idx \in 1..Len(file_record.versions),
           v \in 1..Len(file_record.versions) :
            last' = Call("get_filename",
                         [version_idx |-> version_idx,
                          file_version |-> file_record.versions[v],
                          file_record |-> file_record],
                         Return(get_filename(version_idx, file_record.versions[v],
                                             file_record)))

EnsureDomain ==
    /\ Pure
    /\ \E s \in InputSchemes, n \in InputNetlocs, p \in InputPaths, q \in InputQueries :
        last' = Call("ensure_domain",
                     [url |-> s \o n \o p \o q,
                      scheme |-> s, netloc |-> n, path |-> p, query |-> q],
                     Return(ensure_domain(s \o n \o p \o q)))

BuildCallbackUrls ==
    /\ Pure
    /\ \E node \in HgridNodes, path \in CallbackPaths :
        last' = Call("build_callback_urls", [node |-> node, path |-> path],
                     Return(build_callback_urls(node, path)))

Next ==
    \/ GetPermissions
    \/ SerializeMetadataHgrid
    \/ GetFilename
    \/ EnsureDomain
    \/ BuildCallbackUrls

Spec == InitIdle /\ [][Next]_vars

----------------------------------------------------------------------------
(* Properties of the pure helpers.                                         *)

\* C6: get_permissions returns edit = true exactly when the node grants
\* edit permission to the auth context and the node is not a registration,
\* and view = the node's view-permission check; edit is false for every
\* registration.
C6_Permissions ==
    last.fn = "get_permissions" =>
        LET auth == last.args.auth
            node == last.args.node
            got == last.ret.value
        IN  /\ last.ret.kind = "return"
            /\ DOMAIN got = {"edit", "view"}
            /\ got.edit = TRUE <=> (node.can_edit[auth] = TRUE /\ node.is_registration = FALSE)
            /\ got.view = node.can_view[auth]
            /\ node.is_registration => got.edit = FALSE

\* A registration whose node-level check grants edit: edit is refused.
C6_Witness ==
    /\ last.fn = "get_permissions"
    /\ last.args.node.is_registration
    /\ last.args.node.can_edit[last.args.auth]
    /\ last.args.node.can_view[last.args.auth]
    /\ last.ret.value = [edit |-> FALSE, view |-> TRUE]

\* C3: serialize_metadata_hgrid returns kind = folder for a file tree,
\* kind = file for a file record, and raises a type error for an item of
\* any other type.
C3_KindOrTypeError ==
    last.fn = "serialize_metadata_hgrid" =>
        LET cls == last.args.item.cls
        IN  /\ cls = "OsfStorageFileTree" =>
                  last.ret.kind = "return" /\ last.ret.value.kind = "folder"
            /\ cls = "OsfStorageFileRecord" =>
                  last.ret.kind = "return" /\ last.ret.value.kind = "file"
            /\ cls \notin {"OsfStorageFileTree", "OsfStorageFileRecord"} =>
                  last.ret = Raise("TypeError")

\* stem and ext are the name cut before its last dot, when a symbol other
\* than a dot precedes that dot; otherwise the stem is the whole name.
IsStemExt(name, stem, ext) ==
    /\ stem \o ext = name
    /\ \/ /\ ext # <<>>
          /\ ext[1] = "."
          /\ \A i \in 2..Len(ext) : ext[i] # "."
          /\ \E i \in 1..Len(stem) : stem[i] # "."
       \/ /\ ext = <<>>
          /\ ~ \E i, j \in 1..Len(name) : i < j /\ name[i] # "." /\ name[j] = "."

ExampleName == <<"report", ".", "docx">>

ExampleResult ==
    <<"report", "-", "2021", "-", "01", "-", "05", "T", "00", ":", "00", ":", "00",
      ".", "docx">>

\* The timestamp has the ISO-8601 layout YYYY-MM-DDTHH:MM:SS[.ffffff].
IsIsoLayout(t) ==
    /\ Len(t) \in {11, 13}
    /\ <<t[2], t[4], t[6], t[8], t[10]>> = <<"-", "-", "T", ":", ":">>
    /\ <<Len(t[1]), Len(t[3]), Len(t[5]), Len(t[7]), Len(t[9]), Len(t[11])>>
           = <<4, 2, 2, 2, 2, 2>>
    /\ Len(t) = 13 => t[12] = "." /\ Len(t[13]) = 6

\* C4: get_filename(N, v, record) returns record.name unchanged when N is
\* the number of versions; for N less than it, the stem of the name, a
\* hyphen, v's ISO-8601 creation timestamp, then the extension; the file
\* 'report.docx' with 3 versions and N = 2 gives
\* 'report-2021-01-05T00:00:00.docx'.
C4_Filename ==
    last.fn = "get_filename" =>
        LET n == last.args.version_idx
            record == last.args.file_record
            stamp == isoformat(last.args.file_version.date_created)
            got == last.ret.value
        IN  /\ last.ret.kind = "return"
            /\ n = Len(record.versions) => got = record.name
            /\ n < Len(record.versions) =>
                  /\ IsIsoLayout(stamp)
                  /\ \E k \in 0..Len(record.name) :
                        /\ IsStemExt(record.name, SubSeq(record.name, 1, k),
                                     SubSeq(record.name, k + 1, Len(record.name)))
                        /\ got = SubSeq(record.name, 1, k) \o <<"-">> \o stamp
                                 \o SubSeq(record.name, k + 1, Len(record.name))
            /\ (/\ record.name = ExampleName
                /\ Len(record.versions) = 3
                /\ n = 2
                /\ last.args.file_version = record.versions[2])
               => got = ExampleResult

\* The example: the second of three versions of 'report.docx'.
C4_Witness ==
    /\ last.fn = "get_filename"
    /\ last.args.file_record.name = ExampleName
    /\ Len(last.args.file_record.versions) = 3
    /\ last.args.version_idx = 2
    /\ last.args.file_version = last.args.file_record.versions[2]
    /\ last.ret.value = ExampleResult

\* C5: ensure_domain returns a URL whose host is the canonical domain
\* whatever the input host was, and whose scheme, path and query are those
\* of the input.
C5_EnsureDomain ==
    last.fn = "ensure_domain" =>
        LET a == last.args
        IN  /\ last.ret.kind = "return"
            /\ \E port \in {<<>>, <<":", "5000">>, <<":", "80">>} :
                  last.ret.value =
                      a.scheme \o <<"/", "/">> \o settings_DOMAIN \o port
                      \o a.path \o a.query

\* An internal host with a port, a path and a query.
C5_Witness ==
    /\ last.fn = "ensure_domain"
    /\ last.args.url =
           <<"http", ":", "/", "/", "localhost", ":", "5000",
             "/", "api", "/", "v1", "/", "hook", "/", "?", "path", "=", "a", ".", "txt">>
    /\ last.ret.value =
           <<"http", ":", "/", "/", "osf", ".", "io", ":", "5000",
             "/", "api", "/", "v1", "/", "hook", "/", "?", "path", "=", "a", ".", "txt">>

\* The upload hook route behind each key of the callback mapping.
HookView ==
    [startUrl |-> "osf_storage_upload_start_hook",
     finishUrl |-> "osf_storage_upload_finish_hook",
     cachedUrl |-> "osf_storage_upload_cached_hook",
     pingUrl |-> "osf_storage_upload_ping_hook",
     archiveUrl |-> "osf_storage_upload_archived_hook"]

\* C8: build_callback_urls(node, path) returns exactly the five keys
\* startUrl, finishUrl, cachedUrl, pingUrl, archiveUrl; each value is the
\* node's API URL for its own upload hook route, resolved with the path,
\* with its host replaced by the canonical domain.
C8_CallbackUrls ==
    last.fn = "build_callback_urls" =>
        LET got == last.ret.value
        IN  /\ last.ret.kind = "return"
            /\ DOMAIN got = {"startUrl", "finishUrl", "cachedUrl", "pingUrl", "archiveUrl"}
            /\ \A key \in DOMAIN got :
                  LET route == furl(ApiUrlFor(last.args.node, HookView[key],
                                              last.args.path))
                  IN  /\ furl(got[key]).host = settings_DOMAIN
                      /\ furl(got[key]) = [route EXCEPT !.host = settings_DOMAIN]
            /\ \A k1, k2 \in DOMAIN got : k1 # k2 => got[k1] # got[k2]

C8_Witness ==
    /\ last.fn = "build_callback_urls"
    /\ last.args.path = <<"a", ".", "txt">>
    /\ last.ret.value.archiveUrl =
           <<"/", "/", "osf", ".", "io", "/", "api", "/", "v1", "/", "project", "/",
             "abc12", "/", "osfstorage", "/", "hooks", "/",
             "osf_storage_upload_archived_hook", "/", "?", "path", "=", "a", ".", "txt">>

----------------------------------------------------------------------------
(* The session store, get_cookie_for_user, get_waterbutler_url             *)

SECRET_KEY == "CHANGEME"

WATERBUTLER_URL == <<"http", ":", "/", "/", "localhost", ":", "7777">>

Users ==
    {[_id |-> "u1", username |-> "alice@osf.io", fullname |-> "Alice"],
     [_id |-> "u2", username |-> "bob@osf.io", fullname |-> "Bob"]}

\* The user argument when the caller passes None.
NoUser == [_id |-> "", username |-> "", fullname |-> ""]

\* Session data of a session that belongs to no user yet.
AnonymousData == [status |-> <<>>]

\* A variant that saves the new session without the user's id.
AuthData_without_id(user) ==
    [auth_user_username |-> user.username,
     auth_user_fullname |-> user.fullname]

AuthData(user) ==
    [auth_user_id |-> user._id,
     auth_user_username |-> user.username,
     auth_user_fullname |-> user.fullname]

\* The primary key of the n-th session created: keys are never reused.
SessionId(n) == "s" \o ToString(n)

\* The collection is a sequence in the store's scan order.  A new document
\* may land anywhere in it: pos is where.
Insert(store, doc, pos) ==
    SubSeq(store, 1, pos - 1) \o <<doc>> \o SubSeq(store, pos, Len(store))

\* Session(data=...).save(): a new document, date_modified = now.
NewSession(store, data, t) ==
    [_id |-> SessionId(Len(store) + 1), date_modified |-> t, data |-> data]

\* Session.find(Q('data.auth_user_id', 'eq', user_id)), in scan order.
Session_find(store, user_id) ==
    SelectSeq(store, LAMBDA doc : /\ "auth_user_id" \in DOMAIN doc.data
                                  /\ doc.data.auth_user_id = user_id)

\* .sort('-date_modified'): latest first; documents with equal dates keep
\* their scan order.
RECURSIVE SortByDateModifiedDesc(_)
SortByDateModifiedDesc(docs) ==
    IF Len(docs) = 0 THEN <<>>
    ELSE LET top == Max({docs[i].date_modified : i \in 1..Len(docs)})
             first == CHOOSE i \in 1..Len(docs) :
                          /\ docs[i].date_modified = top
                          /\ \A j \in 1..(i - 1) : docs[j].date_modified # top
         IN  <<docs[first]>>
             \o SortByDateModifiedDesc(SubSeq(docs, 1, first - 1)
                                       \o SubSeq(docs, first + 1, Len(docs)))

\* A variant that forgets to sort.
sessions_query_unsorted(store, user) == Session_find(store, user._id)

\* Session.find(...).sort('-date_modified'): the query get_cookie_for_user
\* builds; each use of it reads the store again.
sessions_query(store, user) ==
    SortByDateModifiedDesc(Session_find(store, user._id))

\* itsdangerous.Signer(key).sign(value): value, '.', the MAC of the value.
Sign(key, value) == <<value, ".", "hmac(" \o key \o "," \o value \o ")">>

\* A variant that takes the last session of the sorted result.
get_cookie_for_user_oldest(store, t, pos, user) ==
    LET found == sessions_query(store, user)
        created == NewSession(store, AuthData(user), t)
        session == IF Len(found) > 0 THEN found[Len(found)] ELSE created
    IN  [store |-> IF Len(found) > 0 THEN store ELSE Insert(store, created, pos),
         ret |-> Sign(SECRET_KEY, session._id)]

\* The session get_cookie_for_user settles on, and the store it leaves:
\* the latest session of the user, or a new one saved at time t.
get_cookie_for_user(store, t, pos, user) ==
    LET found == sessions_query(store, user)
        created == NewSession(store, AuthData(user), t)
        session == IF Len(found) > 0 THEN found[1] ELSE created
    IN  [store |-> IF Len(found) > 0 THEN store ELSE Insert(store, created, pos),
         ret |-> Sign(SECRET_KEY, session._id)]

\* furl's path as its segments, and back.
Segments(path) == IF path = <<>> THEN <<>> ELSE Split(Tail(path), "/")

PathStr(segments) == IF segments = <<>> THEN <<>> ELSE <<"/">> \o Join(segments, "/")

\* url.args[key] = value: the value replaced in place, or the pair added.
ArgsSet(args, key, value) ==
    IF \E i \in 1..Len(args) : args[i][1] = key
    THEN [i \in 1..Len(args) |->
             IF args[i][1] = key THEN <<key, value>> ELSE args[i]]
    ELSE Append(args, <<key, value>>)

\* url.args.update(pairs), pairs in the mapping's iteration order.
RECURSIVE ArgsUpdate(_, _)
ArgsUpdate(args, pairs) ==
    IF Len(pairs) = 0 THEN args
    ELSE ArgsUpdate(ArgsSet(args, pairs[1][1], pairs[1][2]), Tail(pairs))

\* A variant that merges the caller's parameters before the defaults.
get_waterbutler_url_defaults_last(store, t, pos, request, user, path, query) ==
    LET url == furl(WATERBUTLER_URL)
        segments == Segments(url.path) \o path
        minted == get_cookie_for_user(store, t, pos, user)
        cookie == IF user # NoUser THEN minted.ret ELSE request
        args == ArgsUpdate(ArgsUpdate(url.args, query),
                           << <<(<<"token">>), <<>> >>,
                              <<(<<"provider">>), <<"osfstorage">> >>,
                              <<(<<"cookie">>), cookie>> >>)
    IN  [store |-> IF user # NoUser THEN minted.store ELSE store,
         ret |-> furl_url([url EXCEPT !.path = PathStr(segments), !.args = args])]

\* request: the cookie of the current request, NoneStr when it has none.
get_waterbutler_url(store, t, pos, request, user, path, query) ==
    LET url == furl(WATERBUTLER_URL)
        segments == Segments(url.path) \o path
        minted == get_cookie_for_user(store, t, pos, user)
        cookie == IF user # NoUser THEN minted.ret ELSE request
        defaults == ArgsUpdate(url.args,
                               << <<(<<"token">>), <<>> >>,
                                  <<(<<"provider">>), <<"osfstorage">> >>,
                                  <<(<<"cookie">>), cookie>> >>)
        args == ArgsUpdate(defaults, query)
    IN  [store |-> IF user # NoUser THEN minted.store ELSE store,
         ret |-> furl_url([url EXCEPT !.path = PathStr(segments), !.args = args])]

\* Query parameters a caller passes, some colliding with the defaults.
CallerQueries ==
    {<<>>,
     << <<(<<"nid">>), <<"abc12">> >>, <<(<<"path">>), <<"/", "a", ".", "txt">> >> >>,
     << <<(<<"cookie">>), <<"mine">> >> >>,
     << <<(<<"token">>), <<"t0k3n">> >>, <<(<<"provider">>), <<"s3">> >>,
        <<(<<"mode">>), <<"render">> >> >>}

RequestCookies == {NoneStr, <<"s9", ".", "sig">>}

\* The calls below run one at a time, each to completion.
Sequential == UNCHANGED <<procs, render, cache>>

\* The store can hold the session a call for this user may create.
HasRoom(user) ==
    \/ Len(sessions) < MaxSessions
    \/ Len(Session_find(sessions, user._id)) > 0

\* Where a call for this user may put a session it creates: the position
\* matters only when the user has no session yet.
Positions(user) ==
    IF Len(Session_find(sessions, user._id)) > 0 \/ user = NoUser
    THEN {1}
    ELSE 1..(Len(sessions) + 1)

\* What the call before this one was, for a call that follows it directly.
Previous ==
    IF last.fn = "get_cookie_for_user"
    THEN [fn |-> last.fn, user |-> last.args.user, ret |-> last.ret]
    ELSE [fn |-> last.fn, user |-> NoUser, ret |-> Return(<<>>)]

GetCookieForUser ==
    /\ Sequential
    /\ \E user \in Users :
        /\ HasRoom(user)
        /\ \E pos \in Positions(user) :
            LET r == get_cookie_for_user(sessions, now, pos, user)
            IN  /\ sessions' = r.store
                /\ last' = Call("get_cookie_for_user",
                                [user |-> user, store |-> sessions, t |-> now,
                                 after |-> Previous],
                                Return(r.ret))
    /\ now' = now

GetWaterbutlerUrl ==
    /\ Sequential
    /\ \E user \in Users \cup {NoUser}, request \in RequestCookies,
          query \in CallerQueries :
        /\ user # NoUser => HasRoom(user)
        /\ \E pos \in Positions(user) :
            LET r == get_waterbutler_url(sessions, now, pos, request, user,
                                         <<(<<"file">>)>>, query)
            IN  /\ sessions' = r.store
                /\ last' = Call("get_waterbutler_url",
                                [user |-> user, request |-> request,
                                 query |-> query, store |-> sessions],
                                Return(r.ret))
    /\ now' = now

\* Elsewhere in the application: a login or a new visitor saves a session.
OtherSessionCreated ==
    /\ Sequential
    /\ Len(sessions) < MaxSessions
    /\ \E data \in {AuthData(u) : u \in Users} \cup {AnonymousData}, pos \in 1..(Len(sessions) + 1) :
        LET doc == NewSession(sessions, data, now)
        IN  /\ sessions' = Insert(sessions, doc, pos)
            /\ last' = Call("Session.save", [_id |-> doc._id], Return(doc._id))
    /\ now' = now

\* Elsewhere in the application: a request saves its session again.
OtherSessionModified ==
    /\ Sequential
    /\ \E i \in 1..Len(sessions) :
        /\ sessions[i].date_modified # now
        /\ sessions' = [sessions EXCEPT ![i].date_modified = now]
        /\ last' = Call("Session.save", [_id |-> sessions[i]._id],
                        Return(sessions[i]._id))
    /\ now' = now

Tick ==
    /\ Sequential
    /\ now < MaxTime
    /\ now' = now + 1
    /\ UNCHANGED <<last, sessions>>

NextSession ==
    \/ GetCookieForUser
    \/ OtherSessionCreated
    \/ OtherSessionModified
    \/ Tick

SpecSession == InitIdle /\ [][NextSession]_vars

NextWaterbutler ==
    \/ GetWaterbutlerUrl
    \/ OtherSessionCreated

SpecWaterbutler == InitIdle /\ [][NextWaterbutler]_vars

----------------------------------------------------------------------------
(* get_cookie_for_user run by concurrent requests: each read of the query  *)
(* and the save are separate steps on the shared store.                    *)

Running(p) == procs[p].pc \notin {"idle", "done"}

Racing == UNCHANGED <<last, render, cache>>

\* A request calls get_cookie_for_user(user).  It runs alone if no other
\* call is under way, and stops doing so when another call starts.
Begin(p) ==
    /\ Racing
    /\ ~Running(p)
    /\ \E user \in Users :
        procs' = [q \in Procs |->
                     IF q = p
                     THEN [pc |-> "test", user |-> user._id, session |-> NoDoc,
                           created |-> FALSE, ret |-> <<>>,
                           solo |-> \A r \in Procs \ {p} : ~Running(r)]
                     ELSE IF Running(q) THEN [procs[q] EXCEPT !.solo = FALSE]
                     ELSE procs[q]]
    /\ UNCHANGED <<sessions, now>>

UserOf(p) == CHOOSE user \in Users : user._id = procs[p].user

\* 'if sessions:' runs the query and tests whether it found anything.
TestSessions(p) ==
    /\ Racing
    /\ procs[p].pc = "test"
    /\ procs' = [procs EXCEPT ![p].pc =
                     IF Len(sessions_query(sessions, UserOf(p))) > 0
                     THEN "first" ELSE "save"]
    /\ UNCHANGED <<sessions, now>>

\* 'session = sessions[0]' runs the query again and takes its first result.
FirstSession(p) ==
    /\ Racing
    /\ procs[p].pc = "first"
    /\ procs' = [procs EXCEPT ![p].pc = "sign",
                              ![p].session = sessions_query(sessions, UserOf(p))[1]]
    /\ UNCHANGED <<sessions, now>>

\* 'session = Session(data=...); session.save()'
SaveSession(p) ==
    /\ Racing
    /\ procs[p].pc = "save"
    /\ Len(sessions) < MaxSessions
    /\ \E pos \in 1..(Len(sessions) + 1) :
        LET created == NewSession(sessions, AuthData(UserOf(p)), now)
        IN  /\ sessions' = Insert(sessions, created, pos)
            /\ procs' = [procs EXCEPT ![p].pc = "sign",
                                      ![p].session = created,
                                      ![p].created = TRUE]
    /\ now' = now

\* 'return signer.sign(session._id)'
SignSession(p) ==
    /\ Racing
    /\ procs[p].pc = "sign"
    /\ procs' = [procs EXCEPT ![p].pc = "done",
                              ![p].ret = Sign(SECRET_KEY, procs[p].session._id)]
    /\ UNCHANGED <<sessions, now>>

TickRace ==
    /\ Racing
    /\ now < MaxTime
    /\ now' = now + 1
    /\ UNCHANGED <<sessions, procs>>

NextRace ==
    \/ \E p \in Procs : Begin(p)
    \/ \E p \in Procs : TestSessions(p)
    \/ \E p \in Procs : FirstSession(p)
    \/ \E p \in Procs : SaveSession(p)
    \/ \E p \in Procs : SignSession(p)
    \/ TickRace

SpecRace == InitIdle /\ [][NextRace]_vars

----------------------------------------------------------------------------
(* get_waterbutler_download_url, get_cache_filename, render_file           *)

get_waterbutler_download_url(version_idx, file_version, file_record, request, query) ==
    LET nid == file_record.node
        display_name == get_filename(version_idx, file_version, file_record)
    IN  get_waterbutler_url(<<>>, 0, 1, request, NoUser, <<(<<"file">>)>>,
            << <<(<<"nid">>), <<nid>> >>,
               <<(<<"path">>), <<"/">> \o file_record.name>>,
               <<(<<"displayName">>), display_name>>,
               <<(<<"version">>), <<ToString(version_idx)>> >> >>
            \o query).ret

get_cache_filename(file_version) == <<file_version.location_hash, ".", "html">>

\* The cache is the set of rendered files: (file name, content) pairs, at
\* most one per name.
Cached(name) ==
    IF \E entry \in cache : entry[1] = name
    THEN (CHOOSE entry \in cache : entry[1] = name)[2]
    ELSE NoneStr

\* What the cache helper makes of the raw bytes of a file.
Rendering(file_content) ==
    IF file_content = <<>> THEN <<>>
    ELSE <<"<pre>">> \o file_content \o <<"</pre>">>

\* What requests.get may answer with: the bytes of the file, of an empty
\* file, or the body of an error page (a status the code does not look at).
ResponseBodies == {<<"bytes">>, <<>>, <<"404", "-", "not", "-", "found">>}

RenderRecords ==
    {FileRecord(name, MaxVersions) :
        name \in {<<"report", ".", "docx">>, <<"README">>}}

\* A variant that takes any falsy content for a miss.
is_miss_falsy(rendered) == rendered = NoneStr \/ rendered = <<>>

\* 'if rendered is None'
is_miss(rendered) == rendered = NoneStr

Event(call, target, start_render, file_content, out) ==
    [call |-> call, target |-> target, start_render |-> start_render,
     file_content |-> file_content, out |-> out]

RenderFrame == UNCHANGED <<last, sessions, now, procs>>

\* A request calls render_file; OsfStorageGuidFile.find_one finds the file
\* object or raises.
RenderFile ==
    /\ RenderFrame
    /\ render.pc \in {"idle", "done"}
    /\ \E file_record \in RenderRecords, request \in RequestCookies :
       \E version_idx \in 1..Len(file_record.versions), found \in BOOLEAN :
        render' = [pc |-> IF found THEN "lookup" ELSE "done",
                   args |-> [version_idx |-> version_idx,
                             file_version |-> file_record.versions[version_idx],
                             file_record |-> file_record,
                             request |-> request],
                   events |-> <<>>,
                   rendered |-> NoneStr,
                   ret |-> IF found THEN <<>> ELSE Raise("NoResultsFound")]
    /\ UNCHANGED cache

\* rendered = get_cache_content(node_settings, cache_file_name): the cached
\* content, None when there is none, or the helper fails.
CacheLookup ==
    /\ RenderFrame
    /\ render.pc = "lookup"
    /\ LET name == get_cache_filename(render.args.file_version)
       IN  \/ render' = [render EXCEPT
                  !.events = Append(@, Event("get_cache_content", name, FALSE,
                                             NoneStr, Return(Cached(name)))),
                  !.rendered = Cached(name),
                  !.pc = IF is_miss(Cached(name)) THEN "fetch" ELSE "return"]
           \/ render' = [render EXCEPT
                  !.events = Append(@, Event("get_cache_content", name, FALSE,
                                             NoneStr, Raise("IOError"))),
                  !.ret = Raise("IOError"),
                  !.pc = "done"]
    /\ UNCHANGED cache

DownloadUrl ==
    get_waterbutler_download_url(render.args.version_idx, render.args.file_version,
                                 render.args.file_record, render.args.request,
                                 << <<(<<"mode">>), <<"render">> >> >>)

\* file_response = requests.get(download_url): a response, or the
\* connection fails.
HttpGet ==
    /\ RenderFrame
    /\ render.pc = "fetch"
    /\ \/ \E body \in ResponseBodies :
            render' = [render EXCEPT
                !.events = Append(@, Event("requests.get", DownloadUrl, FALSE,
                                           NoneStr, Return(body))),
                !.pc = "render"]
       \/ render' = [render EXCEPT
              !.events = Append(@, Event("requests.get", DownloadUrl, FALSE,
                                         NoneStr, Raise("ConnectionError"))),
              !.ret = Raise("ConnectionError"),
              !.pc = "done"]
    /\ UNCHANGED cache

\* rendered = get_cache_content(..., start_render=True, ...,
\* file_content=file_response.content, ...): the helper renders the bytes,
\* stores the rendering under the file name and returns it, or fails.
StartRender ==
    /\ RenderFrame
    /\ render.pc = "render"
    /\ LET name == get_cache_filename(render.args.file_version)
           file_content == render.events[Len(render.events)].out.value
           rendering == Rendering(file_content)
       IN  \/ /\ render' = [render EXCEPT
                     !.events = Append(@, Event("get_cache_content", name, TRUE,
                                                file_content, Return(rendering))),
                     !.rendered = rendering,
                     !.pc = "return"]
              /\ cache' = {entry \in cache : entry[1] # name}
                          \cup {<<name, rendering>>}
           \/ /\ render' = [render EXCEPT
                     !.events = Append(@, Event("get_cache_content", name, TRUE,
                                                file_content, Raise("IOError"))),
                     !.ret = Raise("IOError"),
                     !.pc = "done"]
              /\ UNCHANGED cache

\* return rendered
ReturnRendered ==
    /\ RenderFrame
    /\ render.pc = "return"
    /\ render' = [render EXCEPT !.ret = Return(render.rendered), !.pc = "done"]
    /\ UNCHANGED cache

NextRender ==
    \/ RenderFile
    \/ CacheLookup
    \/ HttpGet
    \/ StartRender
    \/ ReturnRendered

SpecRender == InitIdle /\ [][NextRender]_vars

----------------------------------------------------------------------------
(* Properties of the session cookie and of the waterbutler URL.            *)

\* itsdangerous.Signer(key).unsign(signed): the value, if its MAC is right.
Unsign(key, signed) ==
    IF Len(signed) = 3 /\ signed = Sign(key, signed[1])
    THEN signed[1]
    ELSE "BadSignature"

\* The sessions of a collection whose data.auth_user_id is the user's id.
Mine(store, user) ==
    {i \in 1..Len(store) :
        /\ "auth_user_id" \in DOMAIN store[i].data
        /\ store[i].data.auth_user_id = user._id}

Remove(store, k) == SubSeq(store, 1, k - 1) \o SubSeq(store, k + 1, Len(store))

\* C1: get_cookie_for_user called twice one after the other for the same
\* user, no session created or modified in between, signs the same session
\* id both times, and the second call adds no session record to the store.
C1_SameSessionTwice ==
    (/\ last.fn = "get_cookie_for_user"
     /\ last.args.after.fn = "get_cookie_for_user"
     /\ last.args.after.user = last.args.user)
    => LET first == Unsign(SECRET_KEY, last.args.after.ret.value)
           second == Unsign(SECRET_KEY, last.ret.value)
       IN  /\ first # "BadSignature"
           /\ second = first
           /\ sessions = last.args.store
           /\ \E i \in Mine(sessions, last.args.user) : sessions[i]._id = second

\* The first call created the user's only session, the second reused it.
C1_Witness ==
    /\ last.fn = "get_cookie_for_user"
    /\ last.args.after.fn = "get_cookie_for_user"
    /\ last.args.after.user = last.args.user
    /\ Len(sessions) = 2
    /\ Cardinality(Mine(sessions, last.args.user)) = 1
    /\ \E i \in Mine(sessions, last.args.user) :
          /\ last.ret.value = Sign(SECRET_KEY, sessions[i]._id)
          /\ sessions[i]._id = SessionId(2)
          /\ sessions[i].date_modified < now

\* C2: with sessions of the user in the store, get_cookie_for_user signs
\* the id of the one with the greatest date_modified among them and
\* creates no session; with none, it creates and saves one session that
\* carries the user's id, username and full name, and signs its id; it
\* never signs a session of a different user.
C2_LatestOrNew ==
    last.fn = "get_cookie_for_user" =>
        LET user == last.args.user
            before == last.args.store
            id == Unsign(SECRET_KEY, last.ret.value)
        IN  /\ last.ret.kind = "return"
            /\ id # "BadSignature"
            /\ Mine(before, user) # {} =>
                  /\ sessions = before
                  /\ \E i \in Mine(before, user) :
                        /\ before[i]._id = id
                        /\ \A j \in Mine(before, user) :
                              before[j].date_modified <= before[i].date_modified
            /\ Mine(before, user) = {} =>
                  \E k \in 1..Len(sessions) :
                      /\ Remove(sessions, k) = before
                      /\ sessions[k]._id = id
                      /\ \A j \in 1..Len(before) : before[j]._id # id
                      /\ sessions[k].date_modified = last.args.t
                      /\ sessions[k].data = [auth_user_id |-> user._id,
                                             auth_user_username |-> user.username,
                                             auth_user_fullname |-> user.fullname]
            /\ \A k \in 1..Len(sessions) :
                  sessions[k]._id = id => k \in Mine(sessions, user)

\* Two sessions of the user with different dates: the later one is signed.
C2_Witness ==
    /\ last.fn = "get_cookie_for_user"
    /\ Len(last.args.store) = 2
    /\ Mine(last.args.store, last.args.user) = {1, 2}
    /\ last.args.store[1].date_modified < last.args.store[2].date_modified
    /\ last.ret.value = Sign(SECRET_KEY, last.args.store[2]._id)
    /\ sessions = last.args.store

\* The value a parsed query holds for a key, "<absent>" when it holds none.
Lookup(args, key) ==
    IF \E i \in 1..Len(args) : args[i][1] = key
    THEN (CHOOSE pair \in {args[i] : i \in 1..Len(args)} : pair[1] = key)[2]
    ELSE <<"<absent>">>

Keys(args) == {args[i][1] : i \in 1..Len(args)}

\* C7: the query of the URL get_waterbutler_url returns holds token = '',
\* provider = 'osfstorage' and cookie = the cookie get_cookie_for_user
\* signed when a user is given, else the cookie of the current request;
\* except that every key the caller passes takes the caller's value, also
\* when it is one of those three.
C7_WaterbutlerQuery ==
    last.fn = "get_waterbutler_url" =>
        LET user == last.args.user
            query == last.args.query
            got == furl(last.ret.value).args
        IN  /\ last.ret.kind = "return"
            /\ Keys(got) = Keys(query) \cup {<<"token">>, <<"provider">>, <<"cookie">>}
            /\ Len(got) = Cardinality(Keys(got))
            /\ \A i \in 1..Len(query) : Lookup(got, query[i][1]) = query[i][2]
            /\ <<"token">> \notin Keys(query) => Lookup(got, <<"token">>) = <<>>
            /\ <<"provider">> \notin Keys(query) =>
                  Lookup(got, <<"provider">>) = <<"osfstorage">>
            /\ (<<"cookie">> \notin Keys(query) /\ user = NoUser) =>
                  Lookup(got, <<"cookie">>) = last.args.request
            /\ (<<"cookie">> \notin Keys(query) /\ user # NoUser) =>
                  \E i \in Mine(sessions, user) :
                      Unsign(SECRET_KEY, Lookup(got, <<"cookie">>)) = sessions[i]._id

\* A user is given and the caller overrides token and provider.
C7_Witness ==
    /\ last.fn = "get_waterbutler_url"
    /\ last.args.user # NoUser
    /\ last.ret.value =
           <<"http", ":", "/", "/", "localhost", ":", "7777", "/", "file", "?",
             "token", "=", "t0k3n", "&", "provider", "=", "s3", "&",
             "cookie", "=", "s1", ".", "hmac(CHANGEME,s1)", "&", "mode", "=", "render">>

\* C10: two calls for the same user that interleave while the user has no
\* session can both create one, leaving two records and returning
\* signatures over two different session ids; every later call, run alone,
\* signs the more recently modified of the user's sessions and creates no
\* further record.
C10_RaceThenLatest ==
    /\ \A p, q \in Procs :
          (/\ p # q
           /\ procs[p].pc = "done" /\ procs[q].pc = "done"
           /\ procs[p].user = procs[q].user
           /\ procs[p].created /\ procs[q].created)
          => /\ Unsign(SECRET_KEY, procs[p].ret) # Unsign(SECRET_KEY, procs[q].ret)
             /\ \A r \in {p, q} :
                   \E i \in Mine(sessions, UserOf(r)) :
                       sessions[i]._id = Unsign(SECRET_KEY, procs[r].ret)
    /\ \A p \in Procs :
          (procs[p].pc = "done" /\ procs[p].solo)
          => LET mine == Mine(sessions, UserOf(p))
             IN  /\ \E i \in mine :
                       /\ sessions[i]._id = Unsign(SECRET_KEY, procs[p].ret)
                       /\ \A j \in mine :
                             sessions[j].date_modified <= sessions[i].date_modified
                 /\ procs[p].created => Cardinality(mine) = 1

\* Two interleaved calls each created a session for the user; a later call
\* ran alone, created nothing and signed the later of the two.
C10_Witness ==
    \E p, q \in Procs :
        /\ p # q
        /\ procs[p].pc = "done" /\ procs[q].pc = "done"
        /\ procs[p].user = procs[q].user
        /\ procs[q].created
        /\ procs[p].solo /\ ~procs[p].created
        /\ Len(sessions) = 2
        /\ Mine(sessions, UserOf(p)) = {1, 2}
        /\ sessions[1].date_modified < sessions[2].date_modified
        /\ procs[p].ret = Sign(SECRET_KEY, sessions[2]._id)
        /\ procs[q].ret = Sign(SECRET_KEY, sessions[1]._id)

----------------------------------------------------------------------------
(* Properties of render_file.                                              *)

IsCacheCall(e, name, start_render) ==
    /\ e.call = "get_cache_content"
    /\ e.target = name
    /\ e.start_render = start_render

Fetches(events) == {i \in 1..Len(events) : events[i].call = "requests.get"}

CacheCalls(events) == {i \in 1..Len(events) : events[i].call = "get_cache_content"}

\* C9: render_file first looks up the cache by the version's location-hash
\* file name; on a hit it returns the cached content with no HTTP fetch and
\* no second cache-helper call; on a miss it makes exactly one HTTP fetch of
\* the download URL and only after it exactly one cache-helper call with
\* start_render=True carrying the fetched bytes, and returns that call's
\* result; a failure of the fetch or of the cache helper reaches the caller
\* with no retry.
C9_RenderFile ==
    LET e == render.events
        name == <<render.args.file_version.location_hash, ".", "html">>
    IN  /\ Cardinality(Fetches(e)) <= 1
        /\ Cardinality(CacheCalls(e)) <= 2
        /\ Len(e) >= 1 => IsCacheCall(e[1], name, FALSE)
        /\ Len(e) >= 2 =>
              /\ e[1].out = Return(NoneStr)
              /\ e[2].call = "requests.get"
              /\ e[2].target = DownloadUrl
              /\ Lookup(furl(e[2].target).args, <<"mode">>) = <<"render">>
        /\ Len(e) >= 3 =>
              /\ e[2].out.kind = "return"
              /\ IsCacheCall(e[3], name, TRUE)
              /\ e[3].file_content = e[2].out.value
        /\ (render.pc = "done" /\ Len(e) >= 1) =>
              /\ (e[1].out.kind = "return" /\ e[1].out.value # NoneStr) =>
                    Len(e) = 1 /\ render.ret = e[1].out
              /\ e[1].out = Return(NoneStr) =>
                    /\ Len(e) >= 2
                    /\ e[2].out.kind = "return" => Len(e) = 3 /\ render.ret = e[3].out
              /\ \A i \in 1..Len(e) :
                    e[i].out.kind = "raise" => i = Len(e) /\ render.ret = e[i].out

\* A miss: one lookup, one fetch of the bytes, one call that rendered them.
C9_Witness ==
    /\ render.pc = "done"
    /\ Len(render.events) = 3
    /\ render.events[1].out = Return(NoneStr)
    /\ render.events[2].out = Return(<<"bytes">>)
    /\ render.events[3].file_content = <<"bytes">>
    /\ render.ret = Return(<<"<pre>", "bytes", "</pre>">>)
    /\ render.args.file_record.name = <<"report", ".", "docx">>
    /\ render.args.version_idx = 2
    /\ render.events[2].target =
           <<"http", ":", "/", "/", "localhost", ":", "7777", "/", "file", "?",
             "token", "=", "&", "provider", "=", "osfstorage", "&", "cookie", "&",
             "nid", "=", "abc12", "&", "path", "=", "/", "report", ".", "docx", "&",
             "displayName", "=", "report", "-", "2021", "-", "01", "-", "05", "T",
             "00", ":", "00", ":", "00", ".", "docx", "&", "version", "=", "2", "&",
             "mode", "=", "render">>

====
